---------------------------- MODULE Spec2Model ----------------------------
(***************************************************************************)
(* A model of the Erlang preprocessor erl_pp as it stands in src/.         *)
(*                                                                         *)
(* The program is the token iterator Preprocessor2 (src/preprocessor.rs)   *)
(* driving a TokenReader (src/token_reader.rs), with macro expansion done  *)
(* by Define::expand (src/directive.rs).  One call of Iterator::next is    *)
(* one step of the model.                                                  *)
(*                                                                         *)
(* A token is a record [k, t, v, ln]: its kind, its source text, its       *)
(* decoded value and the line of its start position.                       *)
(* A partial result of the code (Result<Option<..>>) is a record           *)
(* [err, val, rd]: err = "" is Ok, val is the value (None for Ok(None)),   *)
(* rd is the reader after the call.                                        *)
(***************************************************************************)
EXTENDS Integers, Sequences, FiniteSets, TLC

VARIABLES
    tokens,              \* TokenReader.tokens: what is left of the primary source
    included_tokens,     \* TokenReader.included_tokens: stack of pushed texts
    unread,              \* TokenReader.unread: deque read before any source
    reader_macros,       \* TokenReader.macros: name value -> Define
    macro_calls,         \* TokenReader.macro_calls: log of macro calls
    module_name,         \* TokenReader.module_name
    function_name,       \* TokenReader.function_name
    function_arity,      \* TokenReader.function_arity
    can_directive_start, \* Preprocessor2.can_directive_start
    macros,              \* Preprocessor2.macros: name value -> index of directive
    directives,          \* Preprocessor2.directives
    buffer,              \* Preprocessor2.buffer
    output,              \* the tokens the iterator has yielded so far
    status,              \* "running", "done" (None), "error" (Some(Err)), "panic",
                         \* "diverged" (the call of next does not return)
    error,               \* the error or panic the iterator stopped with
    source               \* the token sequence the tokenizer was built from

vars == <<tokens, included_tokens, unread, reader_macros, macro_calls,
          module_name, function_name, function_arity, can_directive_start,
          macros, directives, buffer, output, status, error, source>>

----------------------------------------------------------------------------
(* Tokens (erl_tokenize::Token)                                            *)

Tok(k, t, v, ln) == [k |-> k, t |-> t, v |-> v, ln |-> ln]

None == Tok("none", "", "", 0)

Atom(a) == Tok("atom", a, a, 1)

QuotedAtom(a) == Tok("atom", "'" \o a \o "'", a, 1)

Var(x) == Tok("var", x, x, 1)

Sym(s) == Tok("sym", s, s, 1)

IntegerToken(n) == Tok("int", ToString(n), ToString(n), 1)

Str(s) == Tok("str", "\"" \o s \o "\"", s, 1)

Ws == Tok("ws", " ", " ", 1)

Hyphen == Sym("-")

Dot == Sym(".")

OpenParen == Sym("(")

CloseParen == Sym(")")

Comma == Sym(",")

Question == Sym("?")

DoubleQuestion == Sym("??")

OpenSquare == Sym("[")

CloseSquare == Sym("]")

OpenBrace == Sym("{")

CloseBrace == Sym("}")

DoubleLeftAngle == Sym("<<")

DoubleRightAngle == Sym(">>")

AtLine(token, ln) == [token EXCEPT !.ln = ln]

Openers_none == {}

Openers == {"(", "{", "[", "<<"}

Closers == {")", "}", "]", ">>"}

CloserOf_square(s) == "]"

CloserOf(s) ==
    CASE s = "(" -> ")"
      [] s = "{" -> "}"
      [] s = "[" -> "]"
      [] s = "<<" -> ">>"

----------------------------------------------------------------------------
(* Options and results                                                     *)

NoneOpt == [some |-> FALSE, v |-> ""]

SomeOpt(x) == [some |-> TRUE, v |-> x]

NoList == [some |-> FALSE, list |-> <<>>]

SomeList(l) == [some |-> TRUE, list |-> l]

Ok(val, rd) == [err |-> "", val |-> val, rd |-> rd]

Err(e, rd) == [err |-> e, val |-> None, rd |-> rd]

EmptyMap == [n \in {} |-> n]

MapInsert(m, key, val) ==
    [n \in DOMAIN m \cup {key} |-> IF n = key THEN val ELSE m[n]]

MapRemove(m, key) == [n \in DOMAIN m \ {key} |-> m[n]]

----------------------------------------------------------------------------
(* The result of a call is bound once and then used: Let(v, K) is K        *)
(* applied to the value of v.                                              *)

Only(S) == CHOOSE e \in S : TRUE

Let(v, K(_)) == Only({K(r) : r \in {v}})

----------------------------------------------------------------------------
(* TokenReader (src/token_reader.rs).  A reader value rd is the record of  *)
(* the struct's fields, plus fuel: the number of macro calls one step of   *)
(* the iterator may still expand before the model gives the run up as      *)
(* diverging.                                                              *)
(* The code reports every malformed input as ErrorKind::InvalidInput and   *)
(* every premature end as ErrorKind::UnexpectedEos; the model names each   *)
(* raising site after the variant of src/error.rs that describes it.       *)

MaxExpansions == 6

RECURSIVE read(_)
RECURSIVE read_impl(_)
RECURSIVE read_macro_call(_, _)
RECURSIVE read_macro_arg_loop(_, _, _)
RECURSIVE read_macro_args_tail(_)

unread_token_back(rd, token) == [rd EXCEPT !.unread = Append(@, token)]

unread_token(rd, token) == [rd EXCEPT !.unread = <<token>> \o @]

push_text_bottom(rd, text) ==
    [rd EXCEPT !.included_tokens = <<text>> \o @]

push_text(rd, text) == [rd EXCEPT !.included_tokens = Append(@, text)]

read_kind(rd, kinds) ==
    Let(read(rd), LAMBDA r :
        IF r.err # "" \/ r.val = None THEN r
        ELSE IF r.val.k \in kinds THEN r
        ELSE Ok(None, unread_token(r.rd, r.val)))

read_atom(rd) == read_kind(rd, {"atom"})

read_variable(rd) == read_kind(rd, {"var"})

read_string(rd) == read_kind(rd, {"str"})

read_whitespace_or_comment(rd) == read_kind(rd, {"ws", "comment"})

UnexpectedToken(rd) == Let(read(rd), LAMBDA shown : Err("UnexpectedToken", shown.rd))

read_variable_or_error(rd) ==
    Let(read_variable(rd), LAMBDA r :
        IF r.err # "" \/ r.val # None THEN r ELSE UnexpectedToken(r.rd))

read_symbol_if(rd, expected) ==
    Let(read(rd), LAMBDA r :
        IF r.err # "" \/ r.val = None THEN r
        ELSE IF r.val.k = "sym" /\ r.val.v = expected THEN r
        ELSE Ok(None, unread_token(r.rd, r.val)))

read_expected_symbol_or_error(rd, expected) ==
    Let(read_symbol_if(rd, expected), LAMBDA r :
        IF r.err # "" \/ r.val # None THEN r ELSE UnexpectedToken(r.rd))

read_macro_name(rd) ==
    Let(read_atom(rd), LAMBDA a :
        IF a.err # "" \/ a.val # None THEN a
        ELSE Let(read_variable(a.rd), LAMBDA v :
                 IF v.err # "" \/ v.val # None THEN v
                 ELSE UnexpectedToken(v.rd)))

MissingArg_never(arg) == FALSE

MissingArg(arg) == Len(arg) = 0

read_macro_arg_loop(rd, stack, arg) ==
    Let(read(rd), LAMBDA r :
        IF r.err # "" THEN r
        ELSE IF r.val = None THEN Err("UnexpectedEof", r.rd)
        ELSE IF r.val.k # "sym" THEN
            read_macro_arg_loop(r.rd, stack, Append(arg, r.val))
        ELSE IF r.val.v = ")" /\ stack = <<>> THEN
            Ok([some |-> arg # <<>>, tokens |-> arg], unread_token(r.rd, r.val))
        ELSE IF r.val.v = "," /\ stack = <<>> THEN
            IF MissingArg(arg) THEN Err("MissingMacroArg", r.rd)
            ELSE Ok([some |-> TRUE, tokens |-> arg], unread_token(r.rd, r.val))
        ELSE IF r.val.v \in Openers THEN
            read_macro_arg_loop(r.rd, Append(stack, r.val), Append(arg, r.val))
        ELSE IF r.val.v \in Closers THEN
            IF stack = <<>> THEN Err("UnbalancedParen", r.rd)
            ELSE IF r.val.v # CloserOf(stack[Len(stack)].v)
                 THEN Err("UnbalancedParen", r.rd)
            ELSE read_macro_arg_loop(r.rd, SubSeq(stack, 1, Len(stack) - 1),
                                     Append(arg, r.val))
        ELSE read_macro_arg_loop(r.rd, stack, Append(arg, r.val)))

read_macro_arg(rd) == read_macro_arg_loop(rd, <<>>, <<>>)

read_macro_args_tail(rd) ==
    Let(read_symbol_if(rd, ","), LAMBDA c :
        IF c.err # "" THEN c
        ELSE IF c.val = None THEN Ok(<<>>, c.rd)
        ELSE Let(read_macro_arg(c.rd), LAMBDA a :
                 IF a.err # "" THEN a
                 ELSE IF ~a.val.some THEN Err("InvalidInput", a.rd)
                 ELSE Let(read_macro_args_tail(a.rd), LAMBDA t :
                          IF t.err # "" THEN t
                          ELSE Ok(<<a.val.tokens>> \o t.val, t.rd))))

read_macro_args(rd) ==
    Let(read_macro_arg(rd), LAMBDA a :
        IF a.err # "" THEN a
        ELSE Let(IF a.val.some
                 THEN Let(read_macro_args_tail(a.rd), LAMBDA t :
                          IF t.err # "" THEN t
                          ELSE Ok(<<a.val.tokens>> \o t.val, t.rd))
                 ELSE Ok(<<>>, a.rd),
                 LAMBDA list :
                     IF list.err # "" THEN list
                     ELSE Let(read_expected_symbol_or_error(list.rd, ")"),
                              LAMBDA c : IF c.err # "" THEN c
                                         ELSE Ok(list.val, c.rd))))

----------------------------------------------------------------------------
(* Define::expand (src/directive.rs).  A Define is the record              *)
(* [name, variables, replacement]; variables is NoList for a macro         *)
(* without formals.  The HashMap built by collect() keeps, for a formal    *)
(* that is listed twice, the binding of its last position.                 *)

Define(name, variables, replacement) ==
    [name |-> name, variables |-> variables, replacement |-> replacement]

Bound(formals, args, text) ==
    {j \in 1..Len(formals) : j <= Len(args) /\ formals[j].v = text}

BindsGet_first(formals, args, text) == args[1]

BindsGet(formals, args, text) ==
    args[Only({j \in Bound(formals, args, text) :
                 \A i \in Bound(formals, args, text) : i <= j})]

TextOf(toks) ==
    LET RECURSIVE cat(_)
        cat(i) == IF i > Len(toks) THEN "" ELSE toks[i].t \o cat(i + 1)
    IN  cat(1)

(* format!("{:?}", text): the text between double quotes, with the double  *)
(* quotes of the string tokens it holds escaped; from_text decodes it back *)

DebugText(toks) ==
    LET RECURSIVE cat(_)
        cat(i) == IF i > Len(toks) THEN ""
                  ELSE (IF toks[i].k = "str"
                        THEN "\\\"" \o toks[i].v \o "\\\""
                        ELSE toks[i].t) \o cat(i + 1)
    IN  "\"" \o cat(1) \o "\""

Stringified_first(val) ==
    Tok("str", DebugText(<<val[1]>>), val[1].t, val[1].ln)

Stringified(val) ==
    Tok("str", DebugText(val), TextOf(val), val[1].ln)

RECURSIVE expand_loop(_, _, _, _)
expand_loop(definition, args, i, acc) ==
    IF i > Len(definition.replacement) THEN [err |-> "", val |-> acc]
    ELSE IF Bound(definition.variables.list, args, definition.replacement[i].t) # {}
    THEN expand_loop(definition, args, i + 1,
                     acc \o BindsGet(definition.variables.list, args,
                                     definition.replacement[i].t))
    ELSE IF definition.replacement[i] = DoubleQuestion THEN
        IF i + 1 > Len(definition.replacement)
        THEN [err |-> "InvalidInput", val |-> <<>>]
        ELSE IF Bound(definition.variables.list, args,
                      definition.replacement[i + 1].t) = {}
        THEN [err |-> "UndefinedMacroVar", val |-> <<>>]
        ELSE expand_loop(definition, args, i + 2,
                Append(acc, Stringified(BindsGet(definition.variables.list, args,
                                                 definition.replacement[i + 1].t))))
    ELSE expand_loop(definition, args, i + 1,
                     Append(acc, definition.replacement[i]))

expand(definition, args) == expand_loop(definition, args, 1, <<>>)

----------------------------------------------------------------------------
(* TokenReader::read_macro_call, read and read_impl                        *)

MacroCall(question, name, args) ==
    [question |-> question, name |-> name, args |-> args]

PredefinedNames ==
    {"MODULE", "MODULE_STRING", "FILE", "LINE", "MACHINE",
     "FUNCTION_NAME", "FUNCTION_ARITY"}

Predefined(rd, name, ln) ==
    CASE name = "MODULE" ->
            IF rd.module_name.some
            THEN SomeOpt(Tok("atom", "'" \o rd.module_name.v \o "'",
                             rd.module_name.v, ln))
            ELSE NoneOpt
      [] name = "MODULE_STRING" ->
            IF rd.module_name.some
            THEN SomeOpt(Tok("str", "\"" \o rd.module_name.v \o "\"",
                             rd.module_name.v, ln))
            ELSE NoneOpt
      [] name = "FILE" -> NoneOpt
      [] name = "LINE" -> SomeOpt(Tok("int", ToString(ln), ToString(ln), ln))
      [] name = "MACHINE" -> SomeOpt(Tok("atom", "'BEAM'", "BEAM", ln))
      [] name = "FUNCTION_NAME" ->
            IF rd.function_name.some
            THEN SomeOpt(Tok("atom", "'" \o rd.function_name.v \o "'",
                             rd.function_name.v, ln))
            ELSE NoneOpt
      [] name = "FUNCTION_ARITY" ->
            IF rd.function_arity.some
            THEN SomeOpt(Tok("int", ToString(rd.function_arity.v),
                             ToString(rd.function_arity.v), ln))
            ELSE NoneOpt

call_predefined_name_line(rd, question, name) ==
    Let(Predefined(rd, name.v, name.ln), LAMBDA replacement :
        IF ~replacement.some
        THEN Err(IF name.v = "FILE" THEN "FileNotSet" ELSE "InvalidInput", rd)
        ELSE Ok(MacroCall(question, name, NoList),
                [rd EXCEPT !.unread = Append(@, replacement.v)]))

call_predefined(rd, question, name) ==
    Let(Predefined(rd, name.v, question.ln), LAMBDA replacement :
        IF ~replacement.some
        THEN Err(IF name.v = "FILE" THEN "FileNotSet" ELSE "InvalidInput", rd)
        ELSE Ok(MacroCall(question, name, NoList),
                [rd EXCEPT !.unread = Append(@, replacement.v)]))

Mismatched_never(args, formals) == FALSE

Mismatched(args, formals) == Len(args) # Len(formals)

call_with_args(rd, question, name, definition) ==
    Let(read_expected_symbol_or_error(rd, "("), LAMBDA o :
        IF o.err # "" THEN o
        ELSE Let(read_macro_args(o.rd), LAMBDA a :
                 IF a.err # "" THEN a
                 ELSE IF Mismatched(a.val, definition.variables.list)
                 THEN Err("MacroArgsMismatched", a.rd)
                 ELSE Let(expand(definition, a.val), LAMBDA replacement :
                          IF replacement.err # "" THEN Err(replacement.err, a.rd)
                          ELSE Ok(MacroCall(question, name, SomeList(a.val)),
                                  [a.rd EXCEPT !.unread = @ \o replacement.val]))))

call_without_args_requeued(rd, question, name, definition) ==
    Ok(MacroCall(question, name, NoList),
       [rd EXCEPT !.unread = @ \o definition.replacement \o <<question, name>>])

call_without_args(rd, question, name, definition) ==
    Ok(MacroCall(question, name, NoList),
       [rd EXCEPT !.unread = @ \o definition.replacement])

HasVariables_always(definition) == TRUE

HasVariables(definition) == definition.variables.some

read_macro_call(rd, question) ==
    Let(read_macro_name(rd), LAMBDA n :
        IF n.err # "" THEN n
        ELSE IF n.val.v \in PredefinedNames
        THEN call_predefined(n.rd, question, n.val)
        ELSE IF n.val.v \notin DOMAIN n.rd.macros THEN Err("UndefinedMacro", n.rd)
        ELSE IF HasVariables(n.rd.macros[n.val.v])
        THEN call_with_args(n.rd, question, n.val, n.rd.macros[n.val.v])
        ELSE call_without_args(n.rd, question, n.val, n.rd.macros[n.val.v]))

read(rd) ==
    Let(read_impl(rd), LAMBDA r :
        IF r.err # "" \/ r.val = None THEN r
        ELSE IF r.val.k = "sym" /\ r.val.v = "?" THEN
            IF r.rd.fuel = 0 THEN Err("Diverged", r.rd)
            ELSE Let(read_macro_call([r.rd EXCEPT !.fuel = @ - 1], r.val),
                     LAMBDA c :
                         IF c.err # "" THEN c
                         ELSE read([c.rd EXCEPT !.macro_calls = Append(@, c.val)]))
        ELSE IF r.val.k \in {"ws", "comment"} THEN read(r.rd)
        ELSE r)

read_impl(rd) ==
    IF rd.unread # <<>> THEN
        Ok(Head(rd.unread), [rd EXCEPT !.unread = Tail(@)])
    ELSE IF rd.included_tokens # <<>> THEN
        IF rd.included_tokens[Len(rd.included_tokens)] = <<>>
        THEN read([rd EXCEPT !.included_tokens = SubSeq(@, 1, Len(@) - 1)])
        ELSE Ok(Head(rd.included_tokens[Len(rd.included_tokens)]),
                [rd EXCEPT !.included_tokens[Len(rd.included_tokens)] = Tail(@)])
    ELSE IF rd.tokens = <<>> THEN Ok(None, rd)
    ELSE Ok(Head(rd.tokens), [rd EXCEPT !.tokens = Tail(@)])

----------------------------------------------------------------------------
(* Preprocessor2 (src/preprocessor.rs).  A driver value st is the record   *)
(* [rd, buffer, macros] of the reader, the buffer and the driver's own     *)
(* map from macro names to directive indices.  A result is [err, val, st]. *)
(* The operators pp_read and pp_read_macro_name are Preprocessor2::read    *)
(* and Preprocessor2::read_macro_name.                                     *)

PpOk(val, st) == [err |-> "", val |-> val, st |-> st]

PpErr(e, st) == [err |-> e, val |-> None, st |-> st]

Lift(result, st) ==
    Let(result, LAMBDA r :
        [err |-> r.err, val |-> r.val, st |-> [st EXCEPT !.rd = r.rd]])

Directive2(kind, name, variables, replacement) ==
    [kind |-> kind, name |-> name, variables |-> variables,
     replacement |-> replacement]

NoDirective == Directive2("none", None, NoList, <<>>)

Unimplemented ==
    {"include", "include_lib", "ifdef", "ifndef", "else", "endif",
     "error", "warning"}

RECURSIVE skip_whitespace_or_comment(_)
RECURSIVE read_list_tail(_)
RECURSIVE read_ignores(_, _)
RECURSIVE read_macro_replacement(_, _)

pp_read(st) ==
    IF st.buffer # <<>>
    THEN PpOk(Head(st.buffer), [st EXCEPT !.buffer = Tail(@)])
    ELSE Lift(read(st.rd), st)

skip_whitespace_or_comment(st) ==
    Let(Lift(read_whitespace_or_comment(st.rd), st), LAMBDA r :
        IF r.err # "" \/ r.val = None THEN r
        ELSE skip_whitespace_or_comment([r.st EXCEPT !.buffer = Append(@, r.val)]))

(* skip_whitespace_or_comment, then a read of the reader *)
Skip(st, Read(_), K(_)) ==
    Let(skip_whitespace_or_comment(st), LAMBDA s :
        IF s.err # "" THEN s
        ELSE Let(Lift(Read(s.st.rd), s.st), LAMBDA r :
                 IF r.err # "" THEN r ELSE K(r)))

pp_read_macro_name(st) ==
    Let(Lift(read_atom(st.rd), st), LAMBDA a :
        IF a.err # "" \/ a.val # None THEN a
        ELSE Let(Lift(read_variable(a.st.rd), a.st), LAMBDA v :
                 IF v.err # "" \/ v.val # None THEN v
                 ELSE Let(Lift(read(v.st.rd), v.st), LAMBDA shown :
                          PpErr("UnexpectedToken", shown.st))))

read_list_tail(st) ==
    Skip(st, LAMBDA rd : read_symbol_if(rd, ","), LAMBDA comma :
        IF comma.val = None THEN PpOk(<<>>, comma.st)
        ELSE Skip(comma.st, LAMBDA rd : read_variable_or_error(rd), LAMBDA var :
                 Let(read_list_tail(var.st), LAMBDA tail :
                     IF tail.err # "" THEN tail
                     ELSE PpOk(<<var.val>> \o tail.val, tail.st))))

read_macro_variables(st) ==
    Skip(st, LAMBDA rd : read_variable(rd), LAMBDA var :
        Let(IF var.val = None THEN PpOk(<<>>, var.st)
            ELSE Let(read_list_tail(var.st), LAMBDA tail :
                     IF tail.err # "" THEN tail
                     ELSE PpOk(<<var.val>> \o tail.val, tail.st)),
            LAMBDA list :
                IF list.err # "" THEN list
                ELSE Skip(list.st,
                          LAMBDA rd : read_expected_symbol_or_error(rd, ")"),
                          LAMBDA close : PpOk(SomeList(list.val), close.st))))

read_ignores(rd, ignores) ==
    Let(read_whitespace_or_comment(rd), LAMBDA r :
        IF r.err # "" THEN r
        ELSE IF r.val = None THEN Ok(ignores, r.rd)
        ELSE read_ignores(r.rd, Append(ignores, r.val)))

close_paren_in_replacement(st, toks, paren) ==
    Let(read_ignores(st.rd, <<>>), LAMBDA ig :
        IF ig.err # "" THEN PpErr(ig.err, [st EXCEPT !.rd = ig.rd])
        ELSE Let(Lift(read_symbol_if(ig.rd, "."), st), LAMBDA dot :
                 IF dot.err # "" THEN dot
                 ELSE IF dot.val # None
                 THEN PpOk(toks, [dot.st EXCEPT !.buffer = @ \o ig.val])
                 ELSE read_macro_replacement(dot.st,
                                             Append(toks, paren) \o ig.val)))

read_macro_replacement(st, toks) ==
    Let(Lift(read(st.rd), st), LAMBDA r :
        IF r.err # "" THEN r
        ELSE IF r.val = None THEN PpErr("UnexpectedEof", r.st)
        ELSE IF r.val.k # "sym"
        THEN read_macro_replacement(r.st, Append(toks, r.val))
        ELSE IF r.val.v # ")" THEN read_macro_replacement(r.st, toks)
        ELSE close_paren_in_replacement(r.st, toks, r.val))

read_define_directive(st) ==
    Skip(st, LAMBDA rd : read_expected_symbol_or_error(rd, "("), LAMBDA open :
    Let(skip_whitespace_or_comment(open.st), LAMBDA s2 :
    IF s2.err # "" THEN s2 ELSE
    Let(pp_read_macro_name(s2.st), LAMBDA name :
    IF name.err # "" THEN name ELSE
    Skip(name.st, LAMBDA rd : read_symbol_if(rd, "("), LAMBDA paren :
    Let(IF paren.val # None THEN read_macro_variables(paren.st)
        ELSE PpOk(NoList, paren.st), LAMBDA variables :
    IF variables.err # "" THEN variables ELSE
    Skip(variables.st, LAMBDA rd : read_expected_symbol_or_error(rd, ","),
         LAMBDA comma :
    Let(read_macro_replacement(comma.st, <<>>), LAMBDA replacement :
    IF replacement.err # "" THEN replacement
    ELSE PpOk(Directive2("define", name.val, variables.val, replacement.val),
              replacement.st))))))))

read_undef_directive(st) ==
    Skip(st, LAMBDA rd : read_expected_symbol_or_error(rd, "("), LAMBDA open :
    Let(skip_whitespace_or_comment(open.st), LAMBDA s2 :
    IF s2.err # "" THEN s2 ELSE
    Let(pp_read_macro_name(s2.st), LAMBDA name :
    IF name.err # "" THEN name ELSE
    Skip(name.st, LAMBDA rd : read_expected_symbol_or_error(rd, ")"),
         LAMBDA close :
    Skip(close.st, LAMBDA rd : read_expected_symbol_or_error(rd, "."),
         LAMBDA dot :
    PpOk(Directive2("undef", name.val, NoList, <<>>), dot.st))))))

read_named_directive(st, index, hyphen, atom) ==
    IF atom.v \in Unimplemented THEN PpErr("unimplemented", st)
    ELSE IF atom.v = "define" THEN
        Let(read_define_directive(st), LAMBDA d :
            IF d.err # "" THEN d
            ELSE PpOk(d.val, [d.st EXCEPT
                                !.macros = MapInsert(@, d.val.name.v, index)]))
    ELSE IF atom.v = "undef" THEN
        Let(read_undef_directive(st), LAMBDA d :
            IF d.err # "" THEN d
            ELSE PpOk(d.val, [d.st EXCEPT !.macros = MapRemove(@, d.val.name.v)]))
    ELSE PpOk(NoDirective, [st EXCEPT !.buffer = <<hyphen>> \o @ \o <<atom>>])

try_read_directive(st, index) ==
    Let(Lift(read_symbol_if(st.rd, "-"), st), LAMBDA hyphen :
        IF hyphen.err # "" THEN hyphen
        ELSE IF hyphen.val = None THEN PpOk(NoDirective, hyphen.st)
        ELSE Skip(hyphen.st, LAMBDA rd : read_atom(rd), LAMBDA atom :
                 IF atom.val = None THEN PpOk(NoDirective, atom.st)
                 ELSE read_named_directive(atom.st, index, hyphen.val, atom.val)))

CanDirectiveStart_keep(token, can_start) == can_start

CanDirectiveStart(token, can_start) ==
    IF token.k \in {"ws", "comment"} THEN can_start
    ELSE IF token.k = "sym" THEN token.v = "."
    ELSE FALSE

next_token(st, can_start, dirs) ==
    Let(IF can_start /\ st.buffer = <<>>
        THEN try_read_directive(st, Len(dirs))
        ELSE PpOk(NoDirective, st), LAMBDA d :
        IF d.err # ""
        THEN [err |-> d.err, val |-> None, st |-> d.st,
              can_directive_start |-> can_start, directives |-> dirs]
        ELSE Let(pp_read(d.st), LAMBDA token :
                 [err |-> token.err, val |-> token.val, st |-> token.st,
                  can_directive_start |->
                      IF token.err # "" \/ token.val = None THEN can_start
                      ELSE CanDirectiveStart(token.val, can_start),
                  directives |->
                      IF d.val.kind # "none" THEN Append(dirs, d.val) ELSE dirs]))

----------------------------------------------------------------------------
(* Sources: the token sequences a Tokenizer hands to Preprocessor2::new.   *)
(* Every token of a source is put on line 1.                               *)

MaxLen == 3

PlainAlphabet == {Atom("a"), Ws, Hyphen, Dot, IntegerToken(1)}

SeqsUpTo(S, n) == UNION {[1..m -> S] : m \in 0..n}

PlainSources == SeqsUpTo(PlainAlphabet, MaxLen)

Concat(seqs) ==
    LET RECURSIVE cat(_)
        cat(i) == IF i > Len(seqs) THEN <<>> ELSE seqs[i] \o cat(i + 1)
    IN  cat(1)

Join(seqs, sep) ==
    LET RECURSIVE cat(_)
        cat(i) == IF i > Len(seqs) THEN <<>>
                  ELSE IF i = Len(seqs) THEN seqs[i]
                  ELSE seqs[i] \o sep \o cat(i + 1)
    IN  cat(1)

DefineSrc(name, replacement) ==
    <<Hyphen, Atom("define"), OpenParen, name, Comma>> \o replacement
        \o <<CloseParen, Dot>>

DefineVarsSrc(name, formals, replacement) ==
    <<Hyphen, Atom("define"), OpenParen, name, OpenParen>>
        \o Join([i \in 1..Len(formals) |-> <<formals[i]>>], <<Comma>>)
        \o <<CloseParen, Comma>> \o replacement \o <<CloseParen, Dot>>

UndefSrc(name) == <<Hyphen, Atom("undef"), OpenParen, name, CloseParen, Dot>>

CondSrc(kind, name) == <<Hyphen, Atom(kind), OpenParen, name, CloseParen, Dot>>

ElseSrc == <<Hyphen, Atom("else"), Dot>>

EndifSrc == <<Hyphen, Atom("endif"), Dot>>

CallSrc(name) == <<Question, name>>

CallArgsSrc(name, args) ==
    <<Question, name, OpenParen>> \o Join(args, <<Comma>>) \o <<CloseParen>>

Seps == {<<>>, <<Ws>>}

(* tests/lib.rs: no_directive_works, define_works, undef_works *)

NoDirectiveSrc ==
    <<Atom("io"), Sym(":"), Atom("format"), OpenParen, Str("Hello"),
      CloseParen, Dot>>

BarBaz == <<OpenSquare, Atom("bar"), Comma, Ws, Atom("baz"), CloseSquare>>

DefineFoo == DefineSrc(Atom("foo"), <<Ws>> \o BarBaz)

DefineFooVars ==
    <<Hyphen, Atom("define"), OpenParen, Var("Foo"), Ws, OpenParen, Var("A"),
      Comma, Ws, Var("B"), CloseParen, Comma, Ws, OpenSquare, Atom("bar"),
      Comma, Ws, Var("A"), Comma, Ws, Atom("baz"), Comma, Ws, Var("B"),
      CloseSquare, CloseParen, Dot>>

UndefFoo == UndefSrc(Atom("foo"))

Pres == {<<>>, <<Atom("aaa"), Dot>>, <<Atom("aaa"), Dot, Ws>>}

Posts == {<<>>, <<Atom("bbb"), Dot>>, <<Ws, Atom("bbb"), Dot>>}

Dirs ==
    {DefineFoo, DefineFooVars, UndefFoo, DefineSrc(Atom("foo"), <<IntegerToken(1)>>),
     DefineSrc(Atom("foo"), <<IntegerToken(1)>>) \o UndefFoo}

DirectiveSources == {pre \o d \o post : pre \in Pres, d \in Dirs, post \in Posts}

(* a definition without formals, then a call of it *)

CallNames == {Atom("foo"), Var("X")}

Replacements ==
    {<<IntegerToken(1)>>, <<Atom("a"), Atom("b")>>,
     <<OpenSquare, Atom("bar"), Comma, Atom("baz"), CloseSquare>>}

DefCallSrc(name, replacement, sep) ==
    DefineSrc(name, replacement) \o sep \o CallSrc(name) \o <<Dot>>

DefCallSources ==
    {DefCallSrc(n, r, sep) : n \in CallNames, r \in Replacements, sep \in Seps}

(* conditionals *)

Kept == <<Atom("kept"), Dot>>

Other == <<Atom("other"), Dot>>

CondBlockSrc(pre, kind, sep) ==
    pre \o CondSrc(kind, Var("X")) \o sep \o Kept \o sep \o ElseSrc \o sep
        \o Other \o sep \o EndifSrc

CondPres == {<<>>, DefineSrc(Var("X"), <<IntegerToken(1)>>) \o <<Ws>>}

CondKinds == {"ifdef", "ifndef"}

CondSources ==
    {CondBlockSrc(pre, kind, sep) : pre \in CondPres, kind \in CondKinds,
                                    sep \in Seps}

NestedMaskedSrc ==
    Join(<<DefineSrc(Var("D"), <<IntegerToken(1)>>), CondSrc("ifdef", Var("U")),
           CondSrc("ifdef", Var("D")), <<Atom("x"), Dot>>, EndifSrc, EndifSrc,
           <<Atom("y"), Dot>>>>, <<Ws>>)

NestedEnteredSrc ==
    Join(<<CondSrc("ifndef", Var("U")), CondSrc("ifdef", Var("U")),
           <<Atom("x"), Dot>>, ElseSrc, <<Atom("z"), Dot>>, EndifSrc,
           EndifSrc>>, <<Ws>>)

NestedSources == {NestedMaskedSrc, NestedEnteredSrc}

(* defines and undefs of X, then a call of X *)

MaxOps == 2

Ops == {"define1", "define2", "undef"}

OpSrc(op) ==
    CASE op = "define1" -> DefineSrc(Var("X"), <<IntegerToken(1)>>)
      [] op = "define2" -> DefineSrc(Var("X"), <<IntegerToken(2)>>)
      [] op = "undef" -> UndefSrc(Var("X"))

OpSeqs == SeqsUpTo(Ops, MaxOps) \ {<<>>}

OpsCallSrc(ops) ==
    Concat([i \in 1..Len(ops) |-> OpSrc(ops[i]) \o <<Ws>>])
        \o CallSrc(Var("X")) \o <<Dot>>

UndefOnlySrc == UndefSrc(Var("X")) \o <<Ws, Atom("a"), Dot>>

OpsSources == {OpsCallSrc(ops) : ops \in OpSeqs} \cup {UndefOnlySrc}

(* the examples of nested calls and of quoted names *)

NestedCallSrc ==
    Join(<<DefineVarsSrc(Var("FOO"), <<Var("A")>>,
                         <<OpenSquare, Var("A"), Comma, Ws, Var("A"), CloseSquare>>),
           DefineSrc(Var("BAR"), <<Ws, Question, Var("LINE")>>),
           CallArgsSrc(Var("FOO"), <<CallSrc(Var("BAR"))>>) \o <<Dot>>>>, <<Ws>>)

QuotedCallSrc ==
    Join(<<DefineSrc(Atom("foo"), <<IntegerToken(1)>>),
           CallSrc(QuotedAtom("foo")) \o <<Dot>>>>, <<Ws>>)

QuotedUndefSrc ==
    Join(<<DefineSrc(Atom("foo"), <<IntegerToken(1)>>), UndefSrc(QuotedAtom("foo")),
           CallSrc(Atom("foo")) \o <<Dot>>>>, <<Ws>>)

QuotedIfdefSrc ==
    Join(<<DefineSrc(Atom("foo"), <<IntegerToken(1)>>),
           CondSrc("ifdef", QuotedAtom("foo")), <<Atom("yes"), Dot>>, EndifSrc>>,
         <<Ws>>)

ExampleSources ==
    {NoDirectiveSrc, NestedCallSrc, QuotedCallSrc, QuotedUndefSrc, QuotedIfdefSrc}

(* an else or endif without an open conditional, a second else *)

StrayPres == {<<>>, <<Atom("a"), Dot, Ws>>}

StraySrc(pre, d) == pre \o d

EndifTwiceSrc ==
    Join(<<CondSrc("ifdef", Var("X")), EndifSrc, EndifSrc>>, <<Ws>>)

StraySources ==
    {StraySrc(pre, d) : pre \in StrayPres, d \in {ElseSrc, EndifSrc}}
        \cup {EndifTwiceSrc}

DoubleElseSrc(pre, kind) ==
    pre \o Join(<<CondSrc(kind, Var("X")), Kept, ElseSrc, Other, ElseSrc,
                  <<Atom("more"), Dot>>, EndifSrc>>, <<Ws>>)

DoubleElseSources ==
    {DoubleElseSrc(pre, kind) : pre \in CondPres, kind \in CondKinds}

(* a define whose replacement holds a `.` that no `)` precedes *)

DotInDefineSrc(name, before, after, post) ==
    <<Hyphen, Atom("define"), OpenParen, name, Comma>> \o before \o <<Dot>>
        \o after \o <<CloseParen, Dot>> \o post

DotInDefineSources ==
    {DotInDefineSrc(name, before, after, post) :
        name \in CallNames,
        before \in {<<>>, <<Atom("a")>>, <<Atom("a"), Ws>>,
                    <<OpenParen, Atom("a"), CloseParen, Atom("b")>>},
        after \in {<<>>, <<Ws, Atom("b")>>},
        post \in {<<>>, <<Ws, Atom("c"), Dot>>}}

(* directives and macro calls inside an arm that is not entered (U is not  *)
(* defined)                                                                *)

MaskedSrc(pre, inside) ==
    pre \o Join(<<CondSrc("ifdef", Var("U")), inside, EndifSrc,
                  <<Atom("a"), Dot>>>>, <<Ws>>)

MaskedDefineSrc == MaskedSrc(<<>>, DefineSrc(Var("X"), <<IntegerToken(1)>>))

MaskedUndefSrc ==
    MaskedSrc(DefineSrc(Var("X"), <<IntegerToken(1)>>) \o <<Ws>>,
              UndefSrc(Var("X")))

MaskedDirectiveSources == {MaskedDefineSrc, MaskedUndefSrc}

MaskedCalls ==
    {CallSrc(Var("X")) \o <<Dot>>,
     CallArgsSrc(Var("X"), <<<<Atom("b")>>>>) \o <<Dot>>,
     CallSrc(Var("LINE")) \o <<Dot>>}

MaskedCallSources == {MaskedSrc(<<>>, call) : call \in MaskedCalls}

(* an attribute that is no directive, and defines at a place where no      *)
(* directive can start                                                     *)

ModuleAttrSrc ==
    <<Hyphen, Atom("module"), OpenParen, Atom("foo"), CloseParen, Dot>>

AttrSources ==
    {pre \o ModuleAttrSrc \o post : pre \in Pres, post \in Posts}

IneligibleSrc(before) == before \o DefineSrc(Atom("foo"), <<IntegerToken(1)>>)

IneligibleSources ==
    {IneligibleSrc(before) :
        before \in {<<Atom("a")>>, <<OpenParen>>, <<Atom("a"), Ws>>,
                    <<Dot, Atom("a")>>, <<IntegerToken(1), Comma>>}}

Sources ==
    PlainSources \cup DirectiveSources \cup DefCallSources \cup CondSources
        \cup NestedSources \cup OpsSources \cup ExampleSources
        \cup StraySources \cup DoubleElseSources \cup DotInDefineSources
        \cup MaskedDirectiveSources \cup MaskedCallSources \cup AttrSources
        \cup IneligibleSources

----------------------------------------------------------------------------
(* A macro table for the reader.  TokenReader::macros is a public field    *)
(* that no code of src/ writes; the expansion of a call is exercised on a  *)
(* reader whose table holds these definitions.                             *)

SeededMacros ==
    [n \in {"A", "FOO", "BAR", "F", "G", "K", "ID", "S", "T"} |->
        CASE n = "A" -> Define(Var("A"), NoList, <<IntegerToken(1)>>)
          [] n = "FOO" -> Define(Var("FOO"), NoList,
                                 <<Question, Var("A"), Atom("x")>>)
          [] n = "BAR" -> Define(Var("BAR"), NoList, <<Question, Var("LINE")>>)
          [] n = "F" -> Define(Var("F"), SomeList(<<Var("A")>>),
                               <<OpenSquare, Var("A"), Comma, Var("A"), CloseSquare>>)
          [] n = "G" -> Define(Var("G"), SomeList(<<Var("A"), Var("B")>>),
                               <<Var("B"), Atom("x"), Var("A")>>)
          [] n = "K" -> Define(Var("K"), SomeList(<<>>), <<Atom("y")>>)
          [] n = "ID" -> Define(Var("ID"), SomeList(<<Var("A")>>), <<Var("A")>>)
          [] n = "S" -> Define(Var("S"), SomeList(<<Var("X")>>),
                               <<DoubleQuestion, Var("X")>>)
          [] n = "T" -> Define(Var("T"), SomeList(<<Var("X")>>),
                               <<Var("X"), DoubleQuestion, Var("Y")>>)]

MaxArgLen == 2

ArgAlphabet == {Atom("a"), IntegerToken(2)}

Args ==
    (SeqsUpTo(ArgAlphabet, MaxArgLen) \ {<<>>})
        \cup {<<Atom("a"), OpenParen, Atom("b"), Comma, Atom("c"), CloseParen>>,
              CallSrc(Var("A")), CallSrc(Var("BAR"))}

ArgLists ==
    {<<>>} \cup {<<a>> : a \in Args} \cup {<<a, b>> : a \in Args, b \in Args}

CallPres == {<<>>, <<Atom("x")>>}

CallPosts == {<<Dot>>, <<Comma, Atom("c"), Dot>>}

ArgsCallSources ==
    {pre \o CallArgsSrc(Var(n), args) \o post :
        n \in {"F", "G", "K"}, args \in ArgLists,
        pre \in CallPres, post \in CallPosts}

PlainCallSources ==
    {pre \o CallSrc(Var(n)) \o post :
        n \in {"A", "FOO", "BAR"}, pre \in CallPres, post \in CallPosts}

(* arguments that hold brackets, commas and closing parentheses *)

NestedArgs ==
    {<<OpenParen, IntegerToken(1), Comma, IntegerToken(2), CloseParen>>,
     <<Atom("a"), OpenParen, Atom("b"), Comma, Atom("c"), CloseParen>>,
     <<OpenSquare, Atom("a"), Comma, OpenParen, Atom("b"), Comma, Atom("c"),
       CloseParen, CloseSquare>>,
     <<OpenBrace, Atom("a"), Comma, Atom("b"), CloseBrace>>,
     <<DoubleLeftAngle, Atom("a"), Comma, Atom("b"), DoubleRightAngle>>,
     <<Atom("a")>>}

BracketCallSrc(pre, args, post) ==
    pre \o CallArgsSrc(Var(IF Len(args) = 1 THEN "ID" ELSE "G"), args) \o post

BracketArgLists ==
    {<<a>> : a \in NestedArgs} \cup {<<a, b>> : a \in NestedArgs, b \in NestedArgs}

BracketCallSources ==
    {BracketCallSrc(pre, args, post) :
        pre \in CallPres, args \in BracketArgLists, post \in CallPosts}

(* calls of the macros whose replacement holds `??` *)

StringifyArgs ==
    {<<IntegerToken(1), Sym("+"), IntegerToken(2)>>, <<Atom("a")>>,
     <<QuotedAtom("a"), Str("b")>>, <<Str("b")>>,
     <<AtLine(Atom("a"), 2), Atom("c")>>, CallSrc(Var("A"))}

StringifyCallSrc(pre, n, arg, post) ==
    pre \o CallArgsSrc(Var(n), <<arg>>) \o post

StringifyCallSources ==
    {StringifyCallSrc(pre, n, arg, post) :
        pre \in CallPres, n \in {"S", "T"}, arg \in StringifyArgs,
        post \in CallPosts}

(* calls whose argument list is malformed: what follows `?F(` or `?G(` *)

EmptyArgTails ==
    {<<Comma, Atom("a"), CloseParen>>, <<Comma, CloseParen>>,
     <<Atom("a"), Comma, Comma, Atom("a"), CloseParen>>,
     <<OpenParen, CloseParen, Comma, Comma, CloseParen>>}

UnbalancedTails ==
    {<<CloseSquare, CloseParen>>, <<Atom("a"), CloseBrace, CloseParen>>,
     <<DoubleRightAngle, CloseParen>>,
     <<OpenParen, Atom("a"), CloseSquare, CloseParen>>,
     <<OpenSquare, Atom("a"), CloseParen, CloseParen>>,
     <<OpenBrace, DoubleRightAngle, CloseParen>>,
     <<DoubleLeftAngle, Atom("a"), CloseBrace, CloseParen>>,
     <<OpenParen, OpenSquare, CloseParen, CloseSquare, CloseParen>>,
     <<Atom("a"), Comma, OpenSquare, CloseSquare, CloseSquare, CloseParen>>}

EofTails ==
    {<<>>, <<Atom("a")>>, <<OpenParen, Atom("a"), CloseParen>>,
     <<Atom("a"), Comma>>, <<Atom("a"), Comma, Atom("a")>>,
     <<OpenSquare, Atom("a"), CloseSquare>>, <<OpenSquare, Atom("a")>>}

OpenCallSrc(pre, n, tail, post) ==
    pre \o <<Question, Var(n), OpenParen>> \o tail \o post

EmptyArgSources ==
    {OpenCallSrc(pre, n, tail, post) :
        pre \in CallPres, n \in {"F", "G", "K"}, tail \in EmptyArgTails,
        post \in CallPosts}

UnbalancedSources ==
    {OpenCallSrc(pre, n, tail, post) :
        pre \in CallPres, n \in {"F", "G"}, tail \in UnbalancedTails,
        post \in CallPosts}

EofSources ==
    {OpenCallSrc(pre, n, tail, <<>>) :
        pre \in CallPres, n \in {"F", "G"}, tail \in EofTails}

MalformedCallSources == EmptyArgSources \cup UnbalancedSources \cup EofSources

(* a parenthesized list after the call of a name that takes no arguments *)

NoArgNames == {"A", "BAR", "LINE", "MACHINE"}

ParenLists ==
    {<<OpenParen, Atom("a"), CloseParen>>,
     <<OpenParen, Atom("a"), Comma, Atom("b"), CloseParen>>,
     <<OpenParen, CloseParen>>}

ParenAfterCallSrc(pre, n, parens, post) ==
    pre \o CallSrc(Var(n)) \o parens \o post

ParenAfterCallSources ==
    {ParenAfterCallSrc(pre, n, parens, post) :
        pre \in CallPres, n \in NoArgNames, parens \in ParenLists,
        post \in CallPosts}

SeededSources ==
    ArgsCallSources \cup PlainCallSources \cup BracketCallSources
        \cup StringifyCallSources \cup MalformedCallSources
        \cup ParenAfterCallSources

----------------------------------------------------------------------------
(* Calls of ?LINE on several lines, the name of the call on the line of    *)
(* the `?` or on the next one, read with and without a macro table and     *)
(* with and without the module and function names set (pub fields of       *)
(* TokenReader).                                                           *)

MaxLine == 3

Lines == 1..MaxLine \cup {42}

ShiftTo(toks, ln) == [i \in 1..Len(toks) |-> AtLine(toks[i], ln)]

LineCallSrc(pre, ln, nameln, post) ==
    pre \o <<AtLine(Question, ln), AtLine(Var("LINE"), nameln)>>
        \o ShiftTo(post, nameln)

LineSources ==
    {LineCallSrc(pre, ln, ln + d, post) :
        pre \in CallPres, ln \in Lines, d \in {0, 1}, post \in CallPosts}

LineShadowMacros ==
    MapInsert(SeededMacros, "LINE",
              Define(Var("LINE"), NoList, <<Atom("shadow")>>))

----------------------------------------------------------------------------
(* The state machine: Init is the state Preprocessor2::new leaves, next is *)
(* one call of Iterator::next on a preprocessor that has not yet returned  *)
(* None, an error or a panic.                                              *)

Init ==
    /\ tokens \in Sources
    /\ source = tokens
    /\ included_tokens = <<>>
    /\ unread = <<>>
    /\ reader_macros = EmptyMap
    /\ macro_calls = <<>>
    /\ module_name = NoneOpt
    /\ function_name = NoneOpt
    /\ function_arity = NoneOpt
    /\ can_directive_start = TRUE
    /\ macros = EmptyMap
    /\ directives = <<>>
    /\ buffer = <<>>
    /\ output = <<>>
    /\ status = "running"
    /\ error = ""

InitSeeded ==
    /\ tokens \in SeededSources
    /\ source = tokens
    /\ included_tokens = <<>>
    /\ unread = <<>>
    /\ reader_macros = SeededMacros
    /\ macro_calls = <<>>
    /\ module_name = NoneOpt
    /\ function_name = NoneOpt
    /\ function_arity = NoneOpt
    /\ can_directive_start = TRUE
    /\ macros = EmptyMap
    /\ directives = <<>>
    /\ buffer = <<>>
    /\ output = <<>>
    /\ status = "running"
    /\ error = ""

(* Macro tables with and without cycles: LOOP calls itself, PING and PONG  *)
(* call each other, STREAM yields a token and calls itself.                *)

CyclicNames == {"LOOP", "PING", "PONG", "STREAM"}

CyclicMacros ==
    [n \in DOMAIN SeededMacros \cup CyclicNames |->
        CASE n = "LOOP" -> Define(Var("LOOP"), NoList, <<Question, Var("LOOP")>>)
          [] n = "PING" -> Define(Var("PING"), NoList, <<Question, Var("PONG")>>)
          [] n = "PONG" -> Define(Var("PONG"), NoList, <<Question, Var("PING")>>)
          [] n = "STREAM" -> Define(Var("STREAM"), NoList,
                                    <<Atom("x"), Question, Var("STREAM")>>)
          [] OTHER -> SeededMacros[n]]

CycleSources ==
    {pre \o CallSrc(Var(n)) \o post :
        pre \in CallPres, n \in CyclicNames, post \in CallPosts}

DeepCallSrc(pre, post) ==
    pre \o CallArgsSrc(Var("G"), <<CallSrc(Var("BAR")), CallSrc(Var("BAR"))>>)
        \o post

DeepCallSources ==
    {DeepCallSrc(pre, post) : pre \in CallPres, post \in CallPosts}

FairSources ==
    PlainCallSources \cup ParenAfterCallSources \cup CycleSources
        \cup DeepCallSources

InitFair ==
    /\ tokens \in FairSources
    /\ source = tokens
    /\ included_tokens = <<>>
    /\ unread = <<>>
    /\ reader_macros \in {SeededMacros, CyclicMacros}
    /\ macro_calls = <<>>
    /\ module_name = NoneOpt
    /\ function_name = NoneOpt
    /\ function_arity = NoneOpt
    /\ can_directive_start = TRUE
    /\ macros = EmptyMap
    /\ directives = <<>>
    /\ buffer = <<>>
    /\ output = <<>>
    /\ status = "running"
    /\ error = ""

InitLines ==
    /\ tokens \in LineSources
    /\ source = tokens
    /\ included_tokens = <<>>
    /\ unread = <<>>
    /\ reader_macros \in {EmptyMap, LineShadowMacros}
    /\ macro_calls = <<>>
    /\ module_name \in {NoneOpt, SomeOpt("m")}
    /\ function_name \in {NoneOpt, SomeOpt("f")}
    /\ function_arity = NoneOpt
    /\ can_directive_start = TRUE
    /\ macros = EmptyMap
    /\ directives = <<>>
    /\ buffer = <<>>
    /\ output = <<>>
    /\ status = "running"
    /\ error = ""

Reader ==
    [tokens |-> tokens, included_tokens |-> included_tokens, unread |-> unread,
     macros |-> reader_macros, macro_calls |-> macro_calls,
     module_name |-> module_name, function_name |-> function_name,
     function_arity |-> function_arity, fuel |-> MaxExpansions]

(* the longest output the model follows; only the endless output of a     *)
(* cyclic macro reaches it                                                 *)
MaxOutput == 24

next ==
    /\ status = "running"
    /\ Len(output) < MaxOutput
    /\ \E r \in {next_token([rd |-> Reader, buffer |-> buffer, macros |-> macros],
                            can_directive_start, directives)} :
           /\ tokens' = r.st.rd.tokens
           /\ included_tokens' = r.st.rd.included_tokens
           /\ unread' = r.st.rd.unread
           /\ reader_macros' = r.st.rd.macros
           /\ macro_calls' = r.st.rd.macro_calls
           /\ module_name' = r.st.rd.module_name
           /\ function_name' = r.st.rd.function_name
           /\ function_arity' = r.st.rd.function_arity
           /\ can_directive_start' = r.can_directive_start
           /\ macros' = r.st.macros
           /\ directives' = r.directives
           /\ buffer' = r.st.buffer
           /\ output' = IF r.err = "" /\ r.val # None
                        THEN Append(output, r.val) ELSE output
           /\ status' = IF r.err = "unimplemented" THEN "panic"
                        ELSE IF r.err = "Diverged" THEN "diverged"
                        ELSE IF r.err # "" THEN "error"
                        ELSE IF r.val = None THEN "done"
                        ELSE "running"
           /\ error' = r.err
    /\ UNCHANGED source

Next == next

Spec == Init /\ [][Next]_vars

SpecSeeded == InitSeeded /\ [][Next]_vars

SpecLines == InitLines /\ [][Next]_vars

(* the iterator is called again and again until it stops *)
SpecFair == InitFair /\ [][Next]_vars /\ WF_vars(Next)

----------------------------------------------------------------------------
(* Properties                                                              *)

IsLexical(t) == t.k \notin {"ws", "comment"}

Lex(toks) == SelectSeq(toks, IsLexical)

IsPrefix(p, q) == Len(p) <= Len(q) /\ SubSeq(q, 1, Len(p)) = p

Stopped == status # "running"

DirectiveNames ==
    Unimplemented \cup {"define", "undef"}

NoDirectiveNoQuestion(src) ==
    \A i \in 1..Len(src) :
        /\ src[i] # Question
        /\ ~(src[i].k = "atom" /\ src[i].v \in DirectiveNames)

\* C1: for a source with no directive and no `?`, iterating to exhaustion
\* yields exactly the source: the iterator ends without error, and what it
\* yielded is the source, token for token.
C1_OutputEqualsInput ==
    NoDirectiveNoQuestion(source) =>
        /\ IsPrefix(output, source)
        /\ status \notin {"error", "panic"}
        /\ status = "done" => output = source

\* C1, observed: the hyphen of `-1` is read by the directive parser and never
\* given back; the iterator yields `1` alone.
C1_HyphenDropped ==
    /\ source = <<Hyphen, IntegerToken(1)>>
    /\ status = "done"
    /\ output = <<IntegerToken(1)>>

\* C2: for a source made of tokens, then define/undef directives, then tokens,
\* no token of a directive is ever yielded, and the tokens before and after
\* (their whitespace included) are yielded in their original order.
C2_DirectiveTokensHidden ==
    \A pre \in Pres, d \in Dirs, post \in Posts :
        source = pre \o d \o post =>
            /\ IsPrefix(output, pre \o post)
            /\ Stopped => (status = "done" /\ output = pre \o post)

\* C2, observed: the directive that directly follows another one is yielded
\* as ordinary tokens.
C2_SecondDirectiveYielded ==
    /\ source = DefineSrc(Atom("foo"), <<IntegerToken(1)>>) \o UndefFoo
    /\ status = "done"
    /\ output = UndefFoo
    /\ Len(directives) = 1

\* C3: after `-define(Name, Replacement).` without formals, the call `?Name`
\* yields the tokens of Replacement in their order, and neither the `?` nor
\* the name of the call.
C3_ParameterlessCall ==
    \A n \in CallNames, r \in Replacements, sep \in Seps :
        (source = DefCallSrc(n, r, sep) /\ Stopped) =>
            (status = "done" /\ Lex(output) = r \o <<Dot>>)

\* C3, observed: the call of a macro the source has just defined ends the
\* iteration with the undefined-macro error.
C3_CallUndefined ==
    /\ source = DefCallSrc(Atom("foo"), <<IntegerToken(1)>>, <<Ws>>)
    /\ status = "error"
    /\ error = "UndefinedMacro"
    /\ output = <<>>
    /\ DOMAIN macros = {"foo"}
    /\ DOMAIN reader_macros = {}

\* C5: for `-ifdef(X). kept. -else. other. -endif.`, exactly the tokens of the
\* then arm are yielded when X is defined before the block and exactly those of
\* the else arm when it is not; for `-ifndef` the two arms are swapped.
C5_OneArmEmitted ==
    \A pre \in CondPres, kind \in CondKinds, sep \in Seps :
        (source = CondBlockSrc(pre, kind, sep) /\ Stopped) =>
            /\ status = "done"
            /\ Lex(output) = IF (pre # <<>>) <=> (kind = "ifdef")
                             THEN Kept ELSE Other

\* C5, observed: the iterator panics on the `-ifdef` and yields nothing.
C5_IfdefPanics ==
    /\ source = CondBlockSrc(<<>>, "ifdef", <<Ws>>)
    /\ status = "panic"
    /\ output = <<>>

\* C6: with nested conditionals a token is yielded exactly when every open
\* branch is entered: an `-ifdef` of a defined macro inside a masked arm yields
\* nothing, and the else arm of an inner block inside an entered arm is yielded.
C6_NestedMasking ==
    /\ (source = NestedMaskedSrc /\ Stopped) =>
            (status = "done" /\ Lex(output) = <<Atom("y"), Dot>>)
    /\ (source = NestedEnteredSrc /\ Stopped) =>
            (status = "done" /\ Lex(output) = <<Atom("z"), Dot>>)

\* C6, observed: no conditional stack exists; the outer `-ifdef`, which follows
\* a directive, is yielded as tokens and the inner one panics.
C6_NestedPanics ==
    /\ source = NestedMaskedSrc
    /\ status = "panic"
    /\ output = CondSrc("ifdef", Var("U"))

LastOp(ops) == ops[Len(ops)]

\* C7: after a sequence of `-define(X, ..)` and `-undef(X)` directives, `?X`
\* yields the replacement of the last define when no undef follows it, and
\* ends with the undefined-macro error when the last directive is an undef;
\* an undef of a name that is not defined is accepted and changes nothing.
C7_MostRecentDefinition ==
    /\ \A ops \in OpSeqs :
        (source = OpsCallSrc(ops) /\ Stopped) =>
            IF LastOp(ops) = "undef"
            THEN status = "error" /\ error = "UndefinedMacro" /\ output = <<>>
            ELSE /\ status = "done"
                 /\ Lex(output) =
                        <<IntegerToken(IF LastOp(ops) = "define1" THEN 1 ELSE 2), Dot>>
    /\ (source = UndefOnlySrc /\ Stopped) =>
            (status = "done" /\ Lex(output) = <<Atom("a"), Dot>>)

\* C7, observed: in `-define(X, 1). -undef(X). ?X.` the undef is not processed
\* but yielded as tokens, before the call fails.
C7_UndefYielded ==
    /\ source = OpsCallSrc(<<"define1", "undef">>)
    /\ status = "error"
    /\ output = UndefSrc(Var("X"))
    /\ DOMAIN macros = {"X"}

\* C9: macro calls in a replacement list and in an actual argument are
\* expanded, and no `?` is yielded:
\* `-define(FOO(A), [A, A]). -define(BAR, ?LINE). ?FOO(?BAR).` yields
\* `[`, `1`, `,`, `1`, `]`, `.`.
C9_NestedCallsExpanded ==
    /\ \A i \in 1..Len(output) : output[i] # Question
    /\ (source = NestedCallSrc /\ Stopped) =>
            /\ status = "done"
            /\ Lex(output) = <<OpenSquare, IntegerToken(1), Comma, IntegerToken(1),
                               CloseSquare, Dot>>

\* C9, observed: the second define is yielded as tokens, with its `?LINE`
\* expanded, and the call of FOO fails.
C9_SecondDefineYielded ==
    /\ source = NestedCallSrc
    /\ status = "error"
    /\ error = "UndefinedMacro"
    /\ output = DefineSrc(Var("BAR"), <<IntegerToken(1)>>)

\* C10: macro names are equal when their decoded values are: a macro defined
\* as `foo` is found by `?'foo'`, removed by `-undef('foo')` and tested true by
\* `-ifdef('foo')`.
C10_QuotedNameSameMacro ==
    /\ (source = QuotedCallSrc /\ Stopped) =>
            (status = "done" /\ Lex(output) = <<IntegerToken(1), Dot>>)
    /\ (source = QuotedUndefSrc /\ Stopped) =>
            (status = "error" /\ error = "UndefinedMacro" /\ output = <<>>)
    /\ (source = QuotedIfdefSrc /\ Stopped) =>
            (status = "done" /\ Lex(output) = <<Atom("yes"), Dot>>)

\* C10, observed: `-ifdef('foo')` after the define of foo is yielded as tokens
\* and the `-endif` panics.
C10_IfdefNotTested ==
    /\ source = QuotedIfdefSrc
    /\ status = "panic"
    /\ output = CondSrc("ifdef", QuotedAtom("foo")) \o <<Atom("yes"), Dot>>

----------------------------------------------------------------------------
(* Expansion, on a reader whose macro table is SeededMacros                *)

LastCall == macro_calls[Len(macro_calls)]

IndexOfFirst(toks, t) ==
    LET is == {i \in 1..Len(toks) : toks[i] = t} IN
    IF is = {} THEN Len(toks) + 1 ELSE CHOOSE i \in is : \A j \in is : i <= j

IndexOfLast(toks, t) ==
    LET is == {i \in 1..Len(toks) : toks[i] = t} IN
    IF is = {} THEN 0 ELSE CHOOSE i \in is : \A j \in is : j <= i

BeforeCall(src) == SubSeq(src, 1, IndexOfFirst(src, Question) - 1)

AfterCall(src) == SubSeq(src, IndexOfLast(src, CloseParen) + 1, Len(src))

PlainReplacement(definition) ==
    \A i \in 1..Len(definition.replacement) :
        definition.replacement[i] \notin {Question, DoubleQuestion}

RECURSIVE Subst(_, _, _)
Subst(template, formals, actuals) ==
    IF template = <<>> THEN <<>>
    ELSE LET t == Head(template)
             js == {j \in 1..Len(formals) : t.k = "var" /\ formals[j].v = t.v}
         IN  (IF js = {} THEN <<t>> ELSE actuals[CHOOSE j \in js : TRUE])
                 \o Subst(Tail(template), formals, actuals)

RECURSIVE RefExpand(_)
RefExpand(toks) ==
    IF toks = <<>> THEN <<>>
    ELSE IF Head(toks) = Question /\ Len(toks) >= 2 THEN
        (IF toks[2].v = "LINE" THEN <<IntegerToken(Head(toks).ln)>>
         ELSE RefExpand(SeededMacros[toks[2].v].replacement))
            \o RefExpand(SubSeq(toks, 3, Len(toks)))
    ELSE <<Head(toks)>> \o RefExpand(Tail(toks))

----------------------------------------------------------------------------
(* Argument lists, on a reader whose macro table is SeededMacros           *)

FirstCall == macro_calls[1]

StringValue(arg) ==
    CASE arg = <<IntegerToken(1), Sym("+"), IntegerToken(2)>> -> "1+2"
      [] arg = <<Atom("a")>> -> "a"
      [] arg = <<QuotedAtom("a"), Str("b")>> -> "'a'\"b\""
      [] arg = <<Str("b")>> -> "\"b\""
      [] arg = <<AtLine(Atom("a"), 2), Atom("c")>> -> "ac"
      [] arg = CallSrc(Var("A")) -> "1"

CallsIn(toks) == Cardinality({i \in 1..Len(toks) : toks[i] = Question})

LoggedNames == [i \in 1..Len(macro_calls) |-> macro_calls[i].name.v]

----------------------------------------------------------------------------
(* ?LINE, under SpecLines                                                  *)

QuestionAt(src) ==
    CHOOSE i \in 1..Len(src) : src[i].k = "sym" /\ src[i].v = "?"

LineToken(ln) == Tok("int", ToString(ln), ToString(ln), ln)

\* C14: a call `?LINE` yields exactly one integer token whose value is the
\* line of the `?` of the call (42 for a call on line 42), whatever the macro
\* table holds and whether or not the module and function names are set.
C14_LineOfQuestion ==
    LET i == QuestionAt(source)
        expected == SubSeq(source, 1, i - 1)
                        \o <<LineToken(source[i].ln)>>
                        \o SubSeq(source, i + 2, Len(source))
    IN  /\ IsPrefix(output, expected)
        /\ Stopped => (status = "done" /\ output = expected)

\* C14, witness: `?LINE.` with the `?` on line 42 and the name on line 43,
\* read with a module name set and a user macro named LINE in the table, has
\* yielded the integer 42.
C14_Witness ==
    /\ source = LineCallSrc(<<>>, 42, 43, <<Dot>>)
    /\ module_name = SomeOpt("m")
    /\ "LINE" \in DOMAIN reader_macros
    /\ status = "done"
    /\ output[1].k = "int"
    /\ output[1].v = "42"

----------------------------------------------------------------------------
(* Conditionals without an opening, and a `.` inside a replacement         *)

\* C16: an `-else` or an `-endif` read while no conditional is open ends the
\* iteration with the missing-if error, after the tokens before it have been
\* yielded; an `-endif` closes one conditional, so the second `-endif` of
\* `-ifdef(X). -endif. -endif.` is the one that fails.
C16_StrayElseOrEndif ==
    /\ \A pre \in StrayPres, d \in {ElseSrc, EndifSrc} :
          (source = StraySrc(pre, d) /\ Stopped) =>
              /\ status = "error"
              /\ error = "MissingIfDirective"
              /\ Lex(output) = Lex(pre)
    /\ (source = EndifTwiceSrc /\ Stopped) =>
          /\ status = "error"
          /\ error = "MissingIfDirective"
          /\ tokens = <<>>

\* C16, observed: the iterator panics on a lone `-endif.`.
C16_EndifPanics ==
    /\ source = EndifSrc
    /\ status = "panic"
    /\ error = "unimplemented"
    /\ output = <<>>

\* C17: an `-else` turns the then arm into the else arm and enters it exactly
\* when the then arm was not entered; a second `-else` for the same
\* conditional ends the iteration with the missing-if error: of
\* `-ifdef(X). kept. -else. other. -else. more. -endif.` the arm taken is
\* yielded and nothing after the second `-else`.
C17_SecondElseRejected ==
    \A pre \in CondPres, kind \in CondKinds :
        (source = DoubleElseSrc(pre, kind) /\ Stopped) =>
            /\ status = "error"
            /\ error = "MissingIfDirective"
            /\ Lex(output) = IF (pre # <<>>) <=> (kind = "ifdef")
                             THEN Kept ELSE Other

\* C17, observed: the iterator panics on the `-ifdef` that opens the
\* conditional, before any `-else` is read.
C17_ElsePanics ==
    /\ source = DoubleElseSrc(<<>>, "ifdef")
    /\ status = "panic"
    /\ error = "unimplemented"
    /\ output = <<>>
    /\ Len(tokens) > Len(Kept)

\* C18: a `.` in the replacement of a `-define` that no `)` precedes makes the
\* directive fail with the unexpected-dot error, and no macro is recorded.
C18_DotInReplacementRejected ==
    source \in DotInDefineSources =>
        /\ macros = EmptyMap
        /\ reader_macros = EmptyMap
        /\ directives = <<>>
        /\ Stopped => (status = "error" /\ error = "UnexpectedDotInMacroDef")

\* C18, observed: `-define(X, a. b).` is accepted; the `.` is dropped and X is
\* recorded with the replacement `a`, `b`.
C18_DotAccepted ==
    /\ source = DotInDefineSrc(Var("X"), <<Atom("a")>>, <<Ws, Atom("b")>>, <<>>)
    /\ status = "done"
    /\ output = <<>>
    /\ DOMAIN macros = {"X"}
    /\ Len(directives) = 1
    /\ directives[1].replacement = <<Atom("a"), Atom("b")>>

----------------------------------------------------------------------------
(* Masked arms, stored replacements, attributes, the place of a directive  *)

\* C21: a define or an undef read inside an arm that is not entered has no
\* effect: after `-ifdef(U). -define(X, 1). -endif. a.` no macro is recorded
\* and `a`, `.` is yielded; after `-define(X, 1). -ifdef(U). -undef(X).
\* -endif. a.` X is still recorded; the `-ifdef` and the `-endif` themselves
\* are applied.
C21_MaskedDirectiveNoEffect ==
    /\ (source = MaskedDefineSrc /\ Stopped) =>
          /\ status = "done"
          /\ macros = EmptyMap
          /\ Lex(output) = <<Atom("a"), Dot>>
    /\ (source = MaskedUndefSrc /\ Stopped) =>
          /\ status = "done"
          /\ DOMAIN macros = {"X"}
          /\ Lex(output) = <<Atom("a"), Dot>>

\* C21, observed: in `-define(X, 1). -ifdef(U). -undef(X). -endif. a.` the
\* `-ifdef` is yielded as tokens and the `-undef` inside it removes X.
C21_MaskedUndefApplied ==
    /\ source = MaskedUndefSrc
    /\ IsPrefix(CondSrc("ifdef", Var("U")), output)
    /\ Len(directives) = 2
    /\ macros = EmptyMap

\* C22: inside an arm that is not entered no macro call is read: `?X` of an
\* undefined X, `?X(b)` and `?LINE` raise no error, log no call and yield
\* nothing; the source ends normally with the tokens after the `-endif`.
C22_MaskedCallIgnored ==
    \A call \in MaskedCalls :
        source = MaskedSrc(<<>>, call) =>
            /\ macro_calls = <<>>
            /\ Stopped => (status = "done" /\ Lex(output) = <<Atom("a"), Dot>>)

\* C22, observed: the iterator panics on the `-ifdef` that opens the arm of
\* `-ifdef(U). ?X. -endif. a.`, so no arm is ever masked.
C22_MaskedArmPanics ==
    /\ source = MaskedSrc(<<>>, CallSrc(Var("X")) \o <<Dot>>)
    /\ status = "panic"
    /\ output = <<>>
    /\ macro_calls = <<>>

\* C24: the replacement recorded for `-define(Name, Replacement).` is exactly
\* the tokens of Replacement, in order and with its symbols (`[`, `,`, `]`).
C24_ReplacementStored ==
    \A n \in CallNames, r \in Replacements, sep \in Seps :
        (source = DefCallSrc(n, r, sep) /\ directives # <<>>) =>
            Lex(directives[1].replacement) = r

\* C24, observed: the replacement recorded for `-define(foo, [bar,baz]).` is
\* `bar`, `baz`: its symbols are dropped.
C24_SymbolsDropped ==
    /\ source = DefCallSrc(Atom("foo"),
                           <<OpenSquare, Atom("bar"), Comma, Atom("baz"),
                             CloseSquare>>, <<>>)
    /\ Len(directives) = 1
    /\ directives[1].replacement = <<Atom("bar"), Atom("baz")>>

\* C25: when the directive parser finds no directive (no `-`, a `-` that no
\* atom follows, a `-` followed by an atom that names no directive, as in
\* `-module(foo).`), the tokens it read are given back: the tokens yielded
\* are those of the source, in order, the `-` included.
C25_NoDirectiveRestores ==
    /\ (NoDirectiveNoQuestion(source) /\ Stopped) =>
          (status = "done" /\ Lex(output) = Lex(source))
    /\ NoDirectiveNoQuestion(source) => IsPrefix(output, Lex(source))

\* C25, observed: of `. - 1` the `-`, read by the directive parser after the
\* `.`, is not given back.
C25_HyphenNotRestored ==
    /\ source = <<Dot, Hyphen, IntegerToken(1)>>
    /\ status = "done"
    /\ output = <<Dot, IntegerToken(1)>>

----------------------------------------------------------------------------
(* Argument lists are read for definitions with formal variables only      *)

----------------------------------------------------------------------------
(* The token reader on its own: a client reads tokens, puts the token it   *)
(* read last back, tries the typed reads and includes texts.  The variable *)
(* output holds the tokens returned and not put back; source holds the     *)
(* lexical tokens the client is to see, in order: those of the primary     *)
(* source, with every included text spliced in behind the tokens that had  *)
(* been taken from the sources when it was included (the tokens returned   *)
(* and the tokens waiting in the unread buffer).                           *)

MaxIncludes == 2

MaxSpliced == 4

MaxReaderLen == 2

ReaderAlphabet == {Atom("a"), Var("X"), Dot, Ws}

ReaderSources == SeqsUpTo(ReaderAlphabet, MaxReaderLen)

Texts ==
    {<<>>, <<Atom("i")>>, <<Ws, Var("J"), Dot>>, <<Str("k"), Ws, Hyphen>>}

InitReader ==
    /\ tokens \in ReaderSources
    /\ source = Lex(tokens)
    /\ included_tokens = <<>>
    /\ unread = <<>>
    /\ reader_macros = EmptyMap
    /\ macro_calls = <<>>
    /\ module_name = NoneOpt
    /\ function_name = NoneOpt
    /\ function_arity = NoneOpt
    /\ can_directive_start = TRUE
    /\ macros = EmptyMap
    /\ directives = <<>>
    /\ buffer = <<>>
    /\ output = <<>>
    /\ status = "running"
    /\ error = ""

ReaderUnchanged ==
    UNCHANGED <<reader_macros, module_name, function_name, function_arity,
                can_directive_start, macros, directives, buffer>>

(* the reader after a call that returned r, and the token it returned *)
Returned(r) ==
    /\ tokens' = r.rd.tokens
    /\ included_tokens' = r.rd.included_tokens
    /\ unread' = r.rd.unread
    /\ macro_calls' = r.rd.macro_calls
    /\ output' = IF r.err = "" /\ r.val # None
                 THEN Append(output, r.val) ELSE output
    /\ error' = r.err
    /\ UNCHANGED source
    /\ ReaderUnchanged

do_read ==
    /\ status # "error"
    /\ \E r \in {read(Reader)} :
           /\ Returned(r)
           /\ status' = IF r.err # "" THEN "error"
                        ELSE IF r.val = None THEN "done" ELSE "running"

do_read_atom ==
    /\ status # "error"
    /\ \E r \in {read_atom(Reader)} :
           Returned(r) /\ status' = IF r.err # "" THEN "error" ELSE "running"

do_read_variable ==
    /\ status # "error"
    /\ \E r \in {read_variable(Reader)} :
           Returned(r) /\ status' = IF r.err # "" THEN "error" ELSE "running"

do_read_string ==
    /\ status # "error"
    /\ \E r \in {read_string(Reader)} :
           Returned(r) /\ status' = IF r.err # "" THEN "error" ELSE "running"

do_read_symbol_if ==
    /\ status # "error"
    /\ \E expected \in {".", "-"} :
           \E r \in {read_symbol_if(Reader, expected)} :
               Returned(r)
                   /\ status' = IF r.err # "" THEN "error" ELSE "running"

do_unread ==
    /\ status # "error"
    /\ output # <<>>
    /\ \E rd \in {unread_token(Reader, output[Len(output)])} :
           /\ unread' = rd.unread
           /\ output' = SubSeq(output, 1, Len(output) - 1)
           /\ status' = "running"
           /\ UNCHANGED <<tokens, included_tokens, macro_calls, error, source>>
           /\ ReaderUnchanged

do_push_text ==
    /\ status # "error"
    /\ Len(included_tokens) < MaxIncludes
    /\ \E text \in Texts :
           /\ Len(source) + Len(Lex(text)) <= MaxSpliced
           /\ \E rd \in {push_text(Reader, text)} :
                  included_tokens' = rd.included_tokens
           /\ source' = SubSeq(source, 1, Len(output) + Len(unread))
                            \o Lex(text)
                            \o SubSeq(source, Len(output) + Len(unread) + 1,
                                      Len(source))
           /\ status' = "running"
           /\ UNCHANGED <<tokens, unread, macro_calls, output, error>>
           /\ ReaderUnchanged

NextReader ==
    \/ do_read
    \/ do_read_atom
    \/ do_read_variable
    \/ do_read_string
    \/ do_read_symbol_if
    \/ do_unread
    \/ do_push_text

SpecReader == InitReader /\ [][NextReader]_vars

(* the tokens the reads of rd return up to the end *)
RECURSIVE ReadAll(_)
ReadAll(rd) ==
    Let(read(rd), LAMBDA r :
        IF r.err # "" \/ r.val = None THEN <<>>
        ELSE <<r.val>> \o ReadAll(r.rd))

\* C27: after a text is included, the reads return its tokens, in order,
\* before any token still in the enclosing source; of several included
\* texts the one included last is served first; when an included text ends,
\* reading goes on in the enclosing source; a read returns None only when the
\* unread buffer, every included text and the primary source are exhausted.
C27_IncludeSplicing ==
    /\ IsPrefix(output \o unread, source)
    /\ ReadAll(Reader) = SubSeq(source, Len(output) + 1, Len(source))
    /\ status = "done" =>
          /\ output = source
          /\ unread = <<>> /\ included_tokens = <<>> /\ tokens = <<>>

\* C27, witness: `X` with `J .` included before it and `i` included after
\* `J` has been read to its end as `J i . X`.
C27_Witness ==
    /\ status = "done"
    /\ tokens = <<>> /\ included_tokens = <<>> /\ unread = <<>>
    /\ output = <<Var("J"), Atom("i"), Dot, Var("X")>>

(* the typed reads, each applied to a reader *)
TypedReads(rd) ==
    {read_atom(rd), read_variable(rd), read_string(rd),
     read_symbol_if(rd, "."), read_symbol_if(rd, "-")}

\* C28: reading a token and putting it back leaves a reader whose reads
\* return the same tokens as before the read; a typed read (read_atom,
\* read_variable, read_string, read_symbol_if) that does not find its kind or
\* value returns None and leaves the tokens of the following reads as they
\* were, and one that finds it returns the token a plain read returns.
C28_UnreadRestores ==
    /\ \E r \in {read(Reader)} :
          r.val # None =>
              /\ ReadAll(unread_token(r.rd, r.val)) = ReadAll(Reader)
              /\ ReadAll(Reader) = <<r.val>> \o ReadAll(r.rd)
    /\ \A t \in TypedReads(Reader) :
          /\ t.err = ""
          /\ t.val = None => ReadAll(t.rd) = ReadAll(Reader)
          /\ t.val # None => ReadAll(Reader) = <<t.val>> \o ReadAll(t.rd)

\* C28, witness: of `a X`, both read and both put back, read_string has
\* looked at `a` and returned None: `a` and `X` wait in the unread buffer, in
\* this order.
C28_Witness ==
    /\ source = <<Atom("a"), Var("X")>>
    /\ output = <<>>
    /\ unread = <<Atom("a"), Var("X")>>
    /\ tokens = <<>>
    /\ \E t \in {read_string(Reader)} : t.val = None /\ t.rd.unread = unread

----------------------------------------------------------------------------
(* PredefinedMacros (src/macros.rs).  A value pm is the record of the      *)
(* struct's three fields; the arity is a number, so its empty option holds *)
(* a number too.  A client sets and clears the fields and tries to expand  *)
(* calls; macro_calls holds the call tried last, output the token it       *)
(* expanded to, status and error its outcome.                              *)

NoArity == [some |-> FALSE, v |-> 0]

ModuleNames == {"m", "n"}

FunctionNames == {"f", "g"}

Arities == {0, 2}

(* the token a predefined name expands to; the tokens of the model carry   *)
(* no file path, so FILE has no value                                      *)
ExpandedToken(pm, name, ln) ==
    CASE name = "MODULE" ->
            Tok("atom", "'" \o pm.module_name.v \o "'", pm.module_name.v, ln)
      [] name = "MODULE_STRING" ->
            Tok("str", "\"" \o pm.module_name.v \o "\"", pm.module_name.v, ln)
      [] name = "LINE" -> Tok("int", ToString(ln), ToString(ln), ln)
      [] name = "MACHINE" -> Tok("atom", "'BEAM'", "BEAM", ln)
      [] name = "FUNCTION_NAME" ->
            Tok("atom", "'" \o pm.function_name.v \o "'",
                pm.function_name.v, ln)
      [] name = "FUNCTION_ARITY" ->
            Tok("int", ToString(pm.function_arity.v),
                ToString(pm.function_arity.v), ln)

Unset(pm, name) ==
    \/ name \in {"MODULE", "MODULE_STRING"} /\ ~pm.module_name.some
    \/ name = "FILE"
    \/ name = "FUNCTION_NAME" /\ ~pm.function_name.some
    \/ name = "FUNCTION_ARITY" /\ ~pm.function_arity.some

try_expand_args_ignored(pm, call) ==
    IF call.name.v \notin PredefinedNames THEN Ok(None, pm)
    ELSE IF Unset(pm, call.name.v) THEN Err("InvalidInput", pm)
    ELSE Ok(ExpandedToken(pm, call.name.v, call.question.ln), pm)

try_expand(pm, call) ==
    IF call.name.v \notin PredefinedNames THEN Ok(None, pm)
    ELSE IF Unset(pm, call.name.v) THEN Err("InvalidInput", pm)
    ELSE IF call.args.some THEN Err("InvalidInput", pm)
    ELSE Ok(ExpandedToken(pm, call.name.v, call.question.ln), pm)

Calls ==
    {MacroCall(AtLine(Question, ln), Var(n), args) :
        ln \in {1, 2},
        n \in PredefinedNames \cup {"FOO"},
        args \in {NoList, SomeList(<<>>), SomeList(<<<<Atom("a")>>>>)}}

InitPredefined ==
    /\ module_name = NoneOpt
    /\ function_name = NoneOpt
    /\ function_arity = NoArity
    /\ macro_calls = <<>>
    /\ output = <<>>
    /\ status = "running"
    /\ error = ""
    /\ tokens = <<>>
    /\ source = <<>>
    /\ included_tokens = <<>>
    /\ unread = <<>>
    /\ reader_macros = EmptyMap
    /\ can_directive_start = TRUE
    /\ macros = EmptyMap
    /\ directives = <<>>
    /\ buffer = <<>>

PredefinedMacros ==
    [module_name |-> module_name, function_name |-> function_name,
     function_arity |-> function_arity]

(* a setter forgets the outcome of the call tried before it *)
Assigned ==
    /\ macro_calls' = <<>>
    /\ output' = <<>>
    /\ status' = "running"
    /\ error' = ""
    /\ UNCHANGED <<tokens, source, included_tokens, unread, reader_macros,
                   can_directive_start, macros, directives, buffer>>

set_module_name ==
    /\ \E name \in ModuleNames : module_name' = SomeOpt(name)
    /\ UNCHANGED <<function_name, function_arity>>
    /\ Assigned

set_function_name ==
    /\ \E name \in FunctionNames : function_name' = SomeOpt(name)
    /\ UNCHANGED <<module_name, function_arity>>
    /\ Assigned

set_function_arity ==
    /\ \E arity \in Arities : function_arity' = [some |-> TRUE, v |-> arity]
    /\ UNCHANGED <<module_name, function_name>>
    /\ Assigned

clear_module_name ==
    /\ module_name' = NoneOpt
    /\ UNCHANGED <<function_name, function_arity>>
    /\ Assigned

clear_function_name ==
    /\ function_name' = NoneOpt
    /\ UNCHANGED <<module_name, function_arity>>
    /\ Assigned

clear_function_arity ==
    /\ function_arity' = NoArity
    /\ UNCHANGED <<module_name, function_name>>
    /\ Assigned

do_try_expand ==
    \E call \in Calls :
        \E r \in {try_expand(PredefinedMacros, call)} :
            /\ macro_calls' = <<call>>
            /\ output' = IF r.err = "" /\ r.val # None THEN <<r.val>> ELSE <<>>
            /\ status' = IF r.err # "" THEN "error"
                         ELSE IF r.val = None THEN "none" ELSE "expanded"
            /\ error' = r.err
            /\ UNCHANGED <<module_name, function_name, function_arity, tokens,
                           source, included_tokens, unread, reader_macros,
                           can_directive_start, macros, directives, buffer>>

NextPredefined ==
    \/ set_module_name
    \/ set_function_name
    \/ set_function_arity
    \/ clear_module_name
    \/ clear_function_name
    \/ clear_function_arity
    \/ do_try_expand

SpecPredefined == InitPredefined /\ [][NextPredefined]_vars

(* what the call tried last needs to be set *)
Needs(name) ==
    CASE name \in {"MODULE", "MODULE_STRING"} -> module_name.some
      [] name = "FUNCTION_NAME" -> function_name.some
      [] name = "FUNCTION_ARITY" -> function_arity.some
      [] name \in {"LINE", "MACHINE"} -> TRUE
      [] OTHER -> FALSE

\* C29: setting or clearing one of module name, function name and function
\* arity leaves the other two as they were; expanding MODULE or
\* MODULE_STRING succeeds exactly when the module name is set, FUNCTION_NAME
\* when the function name is set, FUNCTION_ARITY when the arity is set, and
\* is an error otherwise; a predefined call with an argument list is an
\* error; a name that is not predefined gives Ok(None), with or without
\* arguments.
C29_PredefinedMacros ==
    /\ [](macro_calls # <<>> =>
            /\ macro_calls[1].name.v \notin PredefinedNames =>
                   (status = "none" /\ error = "" /\ output = <<>>)
            /\ macro_calls[1].name.v \in PredefinedNames =>
                   /\ status \in {"expanded", "error"}
                   /\ status = "expanded" <=>
                          (/\ Needs(macro_calls[1].name.v)
                           /\ ~macro_calls[1].args.some)
                   /\ status = "expanded" <=> Len(output) = 1
                   /\ status = "error" <=> error = "InvalidInput")
    /\ [][/\ module_name' # module_name =>
               (function_name' = function_name
                    /\ function_arity' = function_arity)
          /\ function_name' # function_name =>
               (module_name' = module_name
                    /\ function_arity' = function_arity)
          /\ function_arity' # function_arity =>
               (module_name' = module_name
                    /\ function_name' = function_name)]_vars

\* C29, witness: with the module name set to n, the function name cleared
\* again and the arity set to 2, `?FUNCTION_ARITY` on line 2 has expanded
\* to `2`.
C29_Witness ==
    /\ module_name = SomeOpt("n")
    /\ function_name = NoneOpt
    /\ function_arity = [some |-> TRUE, v |-> 2]
    /\ status = "expanded"
    /\ macro_calls = <<MacroCall(AtLine(Question, 2), Var("FUNCTION_ARITY"),
                                 NoList)>>
    /\ output = <<Tok("int", "2", "2", 2)>>

----------------------------------------------------------------------------
(* Termination                                                             *)

(* the names called in the replacement of a definition *)
CalledIn(definition) ==
    {definition.replacement[i + 1].v :
        i \in {j \in 1..(Len(definition.replacement) - 1) :
                  definition.replacement[j] = Question}}

(* the names reached from the names of S in at most k calls *)
RECURSIVE ReachedFrom(_, _, _)
ReachedFrom(table, S, k) ==
    IF k = 0 THEN S
    ELSE ReachedFrom(table,
                     S \cup UNION {CalledIn(table[n]) : n \in S \cap DOMAIN table},
                     k - 1)

Acyclic(table) ==
    \A n \in DOMAIN table :
        n \notin ReachedFrom(table, CalledIn(table[n]), Cardinality(DOMAIN table))

Ended == status \in {"done", "error", "panic"}

C30_EndlessOutput ==
    /\ source = CallSrc(Var("STREAM")) \o <<Dot>>
    /\ ~Acyclic(reader_macros)
    /\ status = "running"
    /\ Len(output) = MaxOutput

=============================================================================
